---------------------------- MODULE Spec2Model ----------------------------
(***************************************************************************)
(* Threshold secret sharing (Shamir) as implemented in src/share.py and    *)
(* src/miller_rabin.py: the Miller-Rabin primality tester, the prime       *)
(* generator, the base-257 block codec, Lagrange interpolation with gmpy   *)
(* rationals, FiniteFieldSecret.share/join and FiniteFieldByteSecret       *)
(* share_small/join_small.                                                 *)
(*                                                                         *)
(* Every operation is a call: Init draws the arguments, one action per     *)
(* operation runs the whole call (its random draws are the choices of the  *)
(* action) and records what it returned or raised.                         *)
(***************************************************************************)
EXTENDS Integers, Sequences, FiniteSets

VARIABLES
    pc,         \* position of the caller: "call", then one value per finished operation
    op,         \* name of the operation the caller starts with
    args,       \* the arguments of that operation (a record)
    ret,        \* what the first operation returned or raised (a record)
    out,        \* what the follow-up join returned or raised (a record)
    randDraws   \* numbers drawn from the random module so far in the current call

vars == <<pc, op, args, ret, out, randDraws>>

(***************************************************************************)
(* Bounds of the model.                                                    *)
(***************************************************************************)
MaxArg == 10000      \* is_probable_prime / generate_prime_bigger_than: argument in 0..MaxArg
MaxRounds == 2       \* is_probable_prime: explicit k in 0..MaxRounds, besides the default
MaxDraw == 1         \* a random.randint(lo, hi) draw is taken within MaxDraw of lo or of hi
MaxD == 6            \* FiniteFieldSecret.share: secret D in -1..MaxD
MaxK == 3            \* FiniteFieldSecret.share: threshold k in 0..MaxK
MaxN == 3            \* FiniteFieldSecret.share: share count n in 0..MaxN
MaxJoinLen == 3      \* FiniteFieldSecret.join on supplied shares: at most this many
MaxX == 3            \* ... with x in 1..MaxX
MaxY == 2            \* ... and y in 0..MaxY

(***************************************************************************)
(* Program constants.                                                      *)
(***************************************************************************)
DefaultRounds == 10          \* is_probable_prime(n, k=10)
Base == 257                  \* str_to_dec / dec_to_str / D_max
PrimeRangeFactor == 100000000 \* random.randint(m, 100000000*m)
ZeroSecretCoeffMax == 1000   \* random.randint(0, 1000) when D = 0

NoValue == [kind |-> "none"]

Max(a, b) == IF a >= b THEN a ELSE b
Min(a, b) == IF a <= b THEN a ELSE b

(***************************************************************************)
(* Python integers are unbounded.  The operators below compute the same    *)
(* values without any intermediate result leaving the 32-bit range.        *)
(***************************************************************************)
\* (a * b) % n for 0 <= a, b < n < 2^25: b = b4*32^4 + ... + b1*32 + b0 is
\* taken five bits at a time, most significant digit first
MulModSlow(a, b, n) ==
    LET Step(acc, digit) == (((acc * 32) % n) + ((a * digit) % n)) % n
        d4 == Step(0, (b \div 1048576) % 32)
        d3 == Step(d4, (b \div 32768) % 32)
        d2 == Step(d3, (b \div 1024) % 32)
        d1 == Step(d2, (b \div 32) % 32)
    IN Step(d1, b % 32)

\* (a * b) % n for 0 <= a, b < n
MulMod(a, b, n) == IF n <= 46340 THEN (a * b) % n ELSE MulModSlow(a % n, b, n)

\* (x * x) % n
Sq(x, n) == MulMod(x, x, n)

\* (x * y) % n when the exponent bit c is set, else x
MulIf(c, x, y, n) == IF c THEN MulMod(x, y, n) ELSE x

\* pow(a, e, n): the builtin three-argument pow, the exponent taken four bits
\* at a time: a^e = (a^(e div 16))^16 * a^(e mod 16).  The guard of the last
\* IF only fixes the order in which the intermediate powers are computed (each
\* is a residue, hence >= 0), which keeps the evaluation shallow.
RECURSIVE PowMod(_, _, _)
PowMod(a, e, n) ==
    IF e = 0 THEN 1 % n
    ELSE LET h   == PowMod(a, e \div 16, n)
             h2  == Sq(h, n)
             h4  == Sq(h2, n)
             h8  == Sq(h4, n)
             h16 == Sq(h8, n)
             a1  == a % n
             a2  == Sq(a1, n)
             a4  == Sq(a2, n)
             a8  == Sq(a4, n)
             r   == e % 16
             m1  == MulIf(r % 2 = 1, h16, a1, n)
             m2  == MulIf((r \div 2) % 2 = 1, m1, a2, n)
             m4  == MulIf((r \div 4) % 2 = 1, m2, a4, n)
             m8  == MulIf((r \div 8) % 2 = 1, m4, a8, n)
             ordered == /\ h >= 0 /\ h2 >= 0 /\ h4 >= 0 /\ h8 >= 0 /\ h16 >= 0
                        /\ a1 >= 0 /\ a2 >= 0 /\ a4 >= 0 /\ a8 >= 0
                        /\ m1 >= 0 /\ m2 >= 0 /\ m4 >= 0
         IN IF ordered THEN m8 ELSE -1

RECURSIVE Pow(_, _)
Pow(b, e) == IF e = 0 THEN 1 ELSE b * Pow(b, e - 1)

(***************************************************************************)
(* miller_rabin.py                                                         *)
(***************************************************************************)

\* factor2(n): d = n-1; the first s with (d >> s) odd
RECURSIVE factor2From(_, _)
factor2From(d, s) ==
    LET D == d \div Pow(2, s)
    IN IF D % 2 = 1 THEN <<D, s>> ELSE factor2From(d, s + 1)

factor2(n) == factor2From(n - 1, 0)

\* faulty variant: the squaring loop starts at i = 1 (range(1, s)) and misses a^d = -1
is_maybe_composite_skip0(a, d, s, n) ==
    IF PowMod(a, d, n) = 1 THEN FALSE
    ELSE ~ \E i \in 1 .. (s - 1) : PowMod(a, Pow(2, i) * d, n) = n - 1

\* is_maybe_composite(a): TRUE when a proves n composite
is_maybe_composite(a, d, s, n) ==
    IF PowMod(a, d, n) = 1 THEN FALSE
    ELSE ~ \E i \in 0 .. (s - 1) : PowMod(a, Pow(2, i) * d, n) = n - 1

\* definitely_prime(a_list)
definitely_prime(a_list, d, s, n) ==
    ~ \E j \in 1 .. Len(a_list) : is_maybe_composite(a_list[j], d, s, n)

\* A literal of miller_rabin.py above the 32-bit range is written as
\* <<hi, lo>>, standing for hi * 10^9 + lo; the arguments n of the model are
\* plain integers.
Below(n, limit) ==
    \/ n \div 1000000000 < limit[1]
    \/ (n \div 1000000000 = limit[1] /\ n % 1000000000 < limit[2])

Same(n, limit) == n \div 1000000000 = limit[1] /\ n % 1000000000 = limit[2]

\* table = [(1373653, (2,3)), (9080191, (31,73)), (25326001, (2,3,5)),
\*          (4759123141, (2,7,61))]
FirstTable ==
    << << <<0, 1373653>>, <<2, 3>> >>,
       << <<0, 9080191>>, <<31, 73>> >>,
       << <<0, 25326001>>, <<2, 3, 5>> >>,
       << <<4, 759123141>>, <<2, 7, 61>> >> >>

\* table = [(2152302898747, (2,3,5,7,11)), (3474749660383, (2,3,5,7,11,13)),
\*          (341550071728321, (2,3,5,7,11,13,17))]
SecondTable ==
    << << <<2152, 302898747>>, <<2, 3, 5, 7, 11>> >>,
       << <<3474, 749660383>>, <<2, 3, 5, 7, 11, 13>> >>,
       << <<341550, 71728321>>, <<2, 3, 5, 7, 11, 13, 17>> >> >>

Undecided == [decided |-> FALSE, result |-> FALSE]
Decided(b) == [decided |-> TRUE, result |-> b]

\* for limit, a_list in table: if n < limit: return definitely_prime(a_list)
RECURSIVE TableLookup(_, _, _, _, _)
TableLookup(table, row, d, s, n) ==
    IF row > Len(table) THEN Undecided
    ELSE IF Below(n, table[row][1])
    THEN Decided(definitely_prime(table[row][2], d, s, n))
    ELSE TableLookup(table, row + 1, d, s, n)

\* if n < 118670087467: if n == 3215031751: return False
\*                      else: return not any(is_maybe_composite(a) for a in (2,3,5,7))
MiddleRange(d, s, n) ==
    IF Below(n, <<118, 670087467>>)
    THEN IF Same(n, <<3, 215031751>>) THEN Decided(FALSE)
         ELSE Decided(definitely_prime(<<2, 3, 5, 7>>, d, s, n))
    ELSE Undecided

\* is_probable_prime(n) up to the probabilistic test: the value returned by one
\* of the exact proofs, or Undecided when none of them applies
ExactProof(n) ==
    IF n < 4 THEN Decided(n \in {2, 3})
    ELSE IF n % 2 = 0 THEN Decided(FALSE)
    ELSE LET ds == factor2(n)
             first == TableLookup(FirstTable, 1, ds[1], ds[2], n)
             middle == MiddleRange(ds[1], ds[2], n)
         IN IF first.decided THEN first
            ELSE IF middle.decided THEN middle
            ELSE TableLookup(SecondTable, 1, ds[1], ds[2], n)

\* The probabilistic rounds: for i in range(k): a = random.randrange(2, n).
\* The set of (result, number of bases drawn) over all draws.
ProbabilisticOutcomes(n, k) ==
    LET ds == factor2(n)
        Comp(a) == is_maybe_composite(a, ds[1], ds[2], n)
    IN { [result |-> \A i \in 1 .. k : ~ Comp(bases[i]),
          draws  |-> IF \A i \in 1 .. k : ~ Comp(bases[i]) THEN k
                     ELSE CHOOSE i \in 1 .. k :
                              /\ Comp(bases[i])
                              /\ \A h \in 1 .. (i - 1) : ~ Comp(bases[h])] :
         bases \in [1 .. k -> 2 .. (n - 1)] }

\* is_probable_prime(n, k): every (result, draws) the call can produce
is_probable_prime(n, k) ==
    LET exact == ExactProof(n)
    IN IF exact.decided THEN { [result |-> exact.result, draws |-> 0] }
       ELSE ProbabilisticOutcomes(n, k)

\* is_probable_prime(n) with the default k where the answer does not depend on
\* the draws: every n the callers in share.py pass within the model is decided
\* by an exact proof
IsProbablePrime(n) == ExactProof(n).result

(***************************************************************************)
(* share.py: generate_prime_bigger_than                                    *)
(***************************************************************************)

\* faulty variant: candidates x+1, x+2, x+3, ... of either parity
RECURSIVE SearchEveryInteger(_)
SearchEveryInteger(t) == IF IsProbablePrime(t) THEN t ELSE SearchEveryInteger(t + 1)

generate_prime_from_next(x) == SearchEveryInteger(x + 1)

\* for t in forever(start=start, step=2): if is_probable_prime(t): return t
RECURSIVE PrimeSearch(_)
PrimeSearch(t) == IF IsProbablePrime(t) THEN t ELSE PrimeSearch(t + 2)

\* if (x%2)==0: start = x+1 else: start = x+2
generate_prime_bigger_than(x) ==
    PrimeSearch(IF x % 2 = 0 THEN x + 1 ELSE x + 2)

(***************************************************************************)
(* Calls of the primality tester and of the prime generator.               *)
(***************************************************************************)
Rounds == (0 .. MaxRounds) \cup {DefaultRounds}

InitPrime ==
    /\ pc = "call"
    /\ \/ /\ op = "is_probable_prime"
          /\ args \in [n : 0 .. MaxArg, k : Rounds]
       \/ /\ op = "generate_prime_bigger_than"
          /\ args \in [n : 0 .. MaxArg, k : {DefaultRounds}]
    /\ ret = NoValue
    /\ out = NoValue
    /\ randDraws = 0

IsProbablePrimeCall ==
    /\ pc = "call"
    /\ op = "is_probable_prime"
    /\ \E o \in is_probable_prime(args.n, args.k) :
          /\ ret' = [kind |-> "bool", value |-> o.result]
          /\ randDraws' = randDraws + o.draws
    /\ pc' = "tested"
    /\ UNCHANGED <<op, args, out>>

GeneratePrimeCall ==
    /\ pc = "call"
    /\ op = "generate_prime_bigger_than"
    /\ ret' = [kind |-> "int", value |-> generate_prime_bigger_than(args.n)]
    /\ pc' = "generated"
    /\ UNCHANGED <<op, args, out, randDraws>>

NextPrime == IsProbablePrimeCall \/ GeneratePrimeCall

SpecPrime == InitPrime /\ [][NextPrime]_vars

(***************************************************************************)
(* gmpy.mpq: a rational is <<numerator, denominator>> in lowest terms with *)
(* a positive denominator; an integer v is <<v, 1>>.                       *)
(***************************************************************************)
RECURSIVE Gcd(_, _)
Gcd(a, b) == IF b = 0 THEN a ELSE Gcd(b, a % b)

Abs(a) == IF a < 0 THEN -a ELSE a

\* mpq(n, d), d # 0
QNorm(n, d) ==
    LET g == Gcd(Abs(n), Abs(d))
        sgn == IF d < 0 THEN -1 ELSE 1
    IN <<sgn * (n \div g), sgn * (d \div g)>>

Q(v) == <<v, 1>>
QAdd(a, b) == QNorm(a[1] * b[2] + b[1] * a[2], a[2] * b[2])
QSub(a, b) == QNorm(a[1] * b[2] - b[1] * a[2], a[2] * b[2])
QMul(a, b) == QNorm(a[1] * b[1], a[2] * b[2])
QDiv(a, b) == QNorm(a[1] * b[2], a[2] * b[1])

\* z % P for an mpq z and a positive integer P: z - P*floor(z/P), a rational in [0, P)
QMod(z, P) == QNorm(z[1] - P * z[2] * (z[1] \div (z[2] * P)), z[2])

(***************************************************************************)
(* random.randint(lo, hi): every value the call can return, and the values *)
(* the actions of the model draw from it.                                  *)
(***************************************************************************)
randint(lo, hi) == lo .. hi

\* the values of lo..hi within w of either end
Sampled(lo, hi, w) == (lo .. Min(lo + w, hi)) \cup (Max(hi - w, lo) .. hi)

\* random.randint(m, 100000000*m), m >= 0: the upper end lies beyond the integers
\* of the model, so only the values within w of m are drawn;
\* r <= PrimeRangeFactor*m is decided without forming the product.
SampledPrimeSeed(m, w) ==
    { r \in m .. (m + w) :
        \/ r \div PrimeRangeFactor < m
        \/ (r \div PrimeRangeFactor = m /\ r % PrimeRangeFactor = 0) }

(***************************************************************************)
(* share.py: FiniteFieldLagrangePolynomial                                 *)
(***************************************************************************)

\* _base(j, x): l = 1; for m in range(k): if j == m: continue;
\*              l *= (x - xx[m]) / (xx[j] - xx[m])       (mpq arithmetic)
RECURSIVE BaseFrom(_, _, _, _, _)
BaseFrom(xx, j, x, m, l) ==
    IF m > Len(xx) THEN l
    ELSE IF m = j THEN BaseFrom(xx, j, x, m + 1, l)
    ELSE BaseFrom(xx, j, x, m + 1,
                  QMul(l, QDiv(QSub(Q(x), Q(xx[m])), QSub(Q(xx[j]), Q(xx[m])))))

Lagrange_base(xx, j, x) == BaseFrom(xx, j, x, 1, Q(1))

\* _at(x): z = mpq(0); for j in range(k): z += yy[j]*_base(j, x); z %= P
RECURSIVE AtFrom(_, _, _, _, _, _)
AtFrom(xx, yy, P, x, j, z) ==
    IF j > Len(xx) THEN z
    ELSE AtFrom(xx, yy, P, x, j + 1,
                QMod(QAdd(z, QMul(yy[j], Lagrange_base(xx, j, x))), P))

Lagrange_at(xx, yy, P, x) == AtFrom(xx, yy, P, x, 1, Q(0))

(***************************************************************************)
(* share.py: FiniteFieldSecret                                             *)
(***************************************************************************)

\* faulty variant: the running sum is not reduced (y %= p is missing)
RECURSIVE PolyvalNoReduceFrom(_, _, _, _, _)
PolyvalNoReduceFrom(a, p, x, i, y) ==
    IF i >= Len(a) THEN y
    ELSE PolyvalNoReduceFrom(a, p, x, i + 1,
             QAdd(y, Q((a[Len(a) - i] * (Pow(x, i) % p)) % p)))

polyval_no_reduce(a, p, x) == PolyvalNoReduceFrom(a, p, x, 0, Q(0))

\* polyval(a, p, x): y = mpq(0); for i, a_i in enumerate(reversed(a)):
\*                   y += (a_i * ((x**i) % p)) % p; y %= p
RECURSIVE PolyvalFrom(_, _, _, _, _)
PolyvalFrom(a, p, x, i, y) ==
    IF i >= Len(a) THEN y
    ELSE PolyvalFrom(a, p, x, i + 1,
             QMod(QAdd(y, Q((a[Len(a) - i] * (Pow(x, i) % p)) % p)), p))

polyval(a, p, x) == PolyvalFrom(a, p, x, 0, Q(0))

\* An absent argument (P=None) is the empty sequence, a given P is <<P>>.
None == <<>>

\* if P is None or not is_probable_prime(P)
NeedsPrime(P) == P = None \/ ~ IsProbablePrime(P[1])

\* The range a lower-order coefficient is drawn from:
\* random.randint(0, D-1) if D > 0 else random.randint(0, 1000)
CoeffRange(D) == IF D > 0 THEN randint(0, D - 1) ELSE randint(0, ZeroSecretCoeffMax)

CoeffSample(D, w) ==
    IF D > 0 THEN Sampled(0, D - 1, w) ELSE Sampled(0, ZeroSecretCoeffMax, w)

\* range(k-1) is empty for k <= 1
CoeffCount(k) == Max(k - 1, 0)

\* shares = [(x, polyval(a, P, x)) for x = 1..n]; a value with denominator 1
\* is converted to int, which is the same <<v, 1>> here
SharesOf(a, P, n) == [i \in 1 .. n |-> [x |-> i, y |-> polyval(a, P, i)]]

\* The three assertions of share, in order; "" when all pass
ShareAssertion(D, n, P) ==
    IF ~ (P > D) THEN "P must be bigger than D"
    ELSE IF ~ (P > n) THEN "P must be bigger than n"
    ELSE IF ~ (D >= 0) THEN "D must be non-negative"
    ELSE ""

\* P = generate_prime_bigger_than(random.randint(m, 100000000*m)): the primes
\* the statement can produce with the seed drawn within w of m
GeneratedPrimes(m, w) ==
    { generate_prime_bigger_than(seed) : seed \in SampledPrimeSeed(m, w) }

\* FiniteFieldSecret.share from its assertions on, with the prime P1 in place
\* and d0 draws made so far: every [ret, draws] the rest of the call can produce
\* with each coefficient drawn within w of an end of its range
ShareWithPrime(D, k, n, P1, d0, w) ==
    LET msg == ShareAssertion(D, n, P1)
    IN IF msg # ""
       THEN { [ret |-> [kind |-> "AssertionError", msg |-> msg], draws |-> d0] }
       ELSE { [ret |-> [kind |-> "ok", P |-> P1,
                        shares |-> SharesOf(low \o <<D>>, P1, n)],
               draws |-> d0 + CoeffCount(k)] :
              low \in [1 .. CoeffCount(k) -> CoeffSample(D, w)] }

\* FiniteFieldSecret.share(D, k, n, P): every [ret, draws] the call can produce
\* with the prime seed and each coefficient drawn within w of an end of its range.
FiniteFieldSecret_share(D, k, n, P, w) ==
    IF NeedsPrime(P)
    THEN UNION { ShareWithPrime(D, k, n, P1, 1, w) :
                 P1 \in GeneratedPrimes(Max(D, n), w) }
    ELSE ShareWithPrime(D, k, n, P[1], 0, w)

\* faulty variant: uniqueness is judged on whole shares (x, y) instead of on x
SharesRepeatedPair(D_seq) ==
    Cardinality({ D_seq[i] : i \in 1 .. Len(D_seq) }) < Len(D_seq)

\* len(set(xx)) < len(xx)
SharesRepeated(D_seq) ==
    Cardinality({ D_seq[i].x : i \in 1 .. Len(D_seq) }) < Len(D_seq)

\* xx[j] - xx[m] = 0 for some j # m: the division in _base raises
BaseDividesByZero(D_seq) ==
    \E j, m \in 1 .. Len(D_seq) : j # m /\ D_seq[j].x = D_seq[m].x

\* FiniteFieldSecret.join(P, D_seq): the int or mpq returned, or the error raised
FiniteFieldSecret_join(P, D_seq) ==
    IF SharesRepeated(D_seq)
    THEN [kind |-> "RuntimeError", msg |-> "Shares must be unique!"]
    ELSE IF BaseDividesByZero(D_seq)
    THEN [kind |-> "ZeroDivisionError", msg |-> "mpq division by zero"]
    ELSE [kind |-> "ok",
          value |-> Lagrange_at([i \in 1 .. Len(D_seq) |-> D_seq[i].x],
                                [i \in 1 .. Len(D_seq) |-> D_seq[i].y], P, 0)]

(***************************************************************************)
(* Calls of FiniteFieldSecret.share, followed by FiniteFieldSecret.join on *)
(* some of the returned shares.                                            *)
(***************************************************************************)
SecretModuli == {None, <<4>>, <<5>>, <<7>>}

InitSecret ==
    /\ pc = "call"
    /\ op = "share"
    /\ args \in [D : (-1) .. MaxD, k : 0 .. MaxK, n : 0 .. MaxN, P : SecretModuli]
    /\ ret = NoValue
    /\ out = NoValue
    /\ randDraws = 0

ShareCall ==
    /\ pc = "call"
    /\ op = "share"
    /\ \E o \in FiniteFieldSecret_share(args.D, args.k, args.n, args.P, MaxDraw) :
          /\ ret' = o.ret
          /\ randDraws' = randDraws + o.draws
    /\ pc' = "shared"
    /\ UNCHANGED <<op, args, out>>

\* The shares with index in S, in increasing order of index
RECURSIVE SubSeq_of(_, _, _)
SubSeq_of(shares, S, i) ==
    IF i > Len(shares) THEN <<>>
    ELSE (IF i \in S THEN <<shares[i]>> ELSE <<>>) \o SubSeq_of(shares, S, i + 1)

JoinCall ==
    /\ pc = "shared"
    /\ ret.kind = "ok"
    /\ \E S \in SUBSET (1 .. Len(ret.shares)) :
          out' = [used |-> S,
                  res  |-> FiniteFieldSecret_join(ret.P, SubSeq_of(ret.shares, S, 1))]
    /\ pc' = "joined"
    /\ UNCHANGED <<op, args, ret, randDraws>>

NextSecret == ShareCall \/ JoinCall

SpecSecret == InitSecret /\ [][NextSecret]_vars

(***************************************************************************)
(* Calls of FiniteFieldSecret.join on shares supplied by the caller.       *)
(***************************************************************************)
SuppliedShares == [x : 1 .. MaxX, y : { Q(v) : v \in 0 .. MaxY }]

SuppliedSeqs == UNION { [1 .. len -> SuppliedShares] : len \in 0 .. MaxJoinLen }

JoinModuli == {3, 5}

InitJoin ==
    /\ pc = "call"
    /\ op = "join"
    /\ args \in [P : JoinModuli, D_seq : SuppliedSeqs]
    /\ ret = NoValue
    /\ out = NoValue
    /\ randDraws = 0

JoinSuppliedCall ==
    /\ pc = "call"
    /\ op = "join"
    /\ ret' = FiniteFieldSecret_join(args.P, args.D_seq)
    /\ pc' = "joined"
    /\ UNCHANGED <<op, args, out, randDraws>>

NextJoin == JoinSuppliedCall

SpecJoin == InitJoin /\ [][NextJoin]_vars

(***************************************************************************)
(* share.py: the block codec str_to_dec / dec_to_str.  A byte string is a  *)
(* sequence of integers in 0..255.                                         *)
(***************************************************************************)

\* faulty variant: the byte value is used as the digit, without the +1 guard
RECURSIVE StrToDecPlainFrom(_, _)
StrToDecPlainFrom(s, i) ==
    IF i > Len(s) THEN 0
    ELSE s[i] * Pow(Base, Len(s) - i) + StrToDecPlainFrom(s, i + 1)

str_to_dec_plain(s) == StrToDecPlainFrom(s, 1)

\* str_to_dec(s): d += (ord(c)+1) * 257**(len(s)-i-1) for i, c in enumerate(s)
RECURSIVE StrToDecFrom(_, _)
StrToDecFrom(s, i) ==
    IF i > Len(s) THEN 0
    ELSE (s[i] + 1) * Pow(Base, Len(s) - i) + StrToDecFrom(s, i + 1)

str_to_dec(s) == StrToDecFrom(s, 1)

\* x // 257**i, by i floor divisions (257**i itself may leave the 32-bit range)
RECURSIVE FloorDivPow(_, _)
FloorDivPow(x, i) == IF i = 0 THEN x ELSE FloorDivPow(x \div Base, i - 1)

\* int(np.ceil(np.log10(float(x))/np.log10(257))): the least e with 257**e >= x.
\* (A float quotient that comes out just above an integer gives e+1 instead;
\* the loop of DigitCount below removes that excess the same way.)
RECURSIVE CeilLogFrom(_, _)
CeilLogFrom(x, e) == IF FloorDivPow(x - 1, e) = 0 THEN e ELSE CeilLogFrom(x, e + 1)

\* i = ceil(log_257(x)) + 1; while x//257**i == 0: i -= 1
RECURSIVE DigitCountFrom(_, _)
DigitCountFrom(x, i) == IF FloorDivPow(x, i) = 0 THEN DigitCountFrom(x, i - 1) ELSE i

DigitCount(x) == DigitCountFrom(x, CeilLogFrom(x, 0) + 1)

\* while running > 0: q, r = divmod(running, 257**i); l.append(chr(int(q-1)));
\*                    running = r; i -= 1
\* chr(-1) raises ValueError
RECURSIVE DigitsFrom(_, _, _)
DigitsFrom(running, i, l) ==
    IF ~ (running > 0) THEN [kind |-> "ok", value |-> l]
    ELSE LET q == running \div Pow(Base, i)
             r == running % Pow(Base, i)
         IN IF q - 1 < 0
            THEN [kind |-> "ValueError", msg |-> "chr() arg not in range(256)"]
            ELSE DigitsFrom(r, i - 1, Append(l, q - 1))

\* dec_to_str(x) for an integer x
dec_to_str(x) ==
    IF x > 0 THEN DigitsFrom(x, DigitCount(x), <<>>)
    ELSE [kind |-> "ok", value |-> <<>>]

(***************************************************************************)
(* share.py: FiniteFieldByteSecret                                         *)
(***************************************************************************)

\* msg_bytes[start_idx:start_idx+share_length]
\*     for start_idx in range(0, len(msg_bytes), share_length)
RECURSIVE BlocksFrom(_, _, _)
BlocksFrom(msg, L, start) ==
    IF start > Len(msg) THEN <<>>
    ELSE <<SubSeq(msg, start, Min(start + L - 1, Len(msg)))>>
         \o BlocksFrom(msg, L, start + L)

Blocks(msg, L) == BlocksFrom(msg, L, 1)

\* faulty variant: only the lower bound of the share length is asserted
ShareLengthPositive(share_length, msg_len) == 1 <= share_length

\* assert 1 <= share_length <= len(msg_bytes)
ShareLengthOk(share_length, msg_len) ==
    1 <= share_length /\ share_length <= msg_len

\* The three assertions of share_small, in order; "" when all pass
ShareSmallAssertion(D_max, n, P, share_length, msg_len) ==
    IF ~ (P > D_max) THEN "P must be bigger than 257^share_length"
    ELSE IF ~ (P > n) THEN "P must be bigger than n"
    ELSE IF ~ ShareLengthOk(share_length, msg_len)
    THEN "Share length must be bigger than 0 and smaller than or equal to the length of the message"
    ELSE ""

\* The loop over the blocks: each block is encoded and shared under the common
\* P.  Every [rows, draws, err] the loop can produce; rows[b] are the n shares
\* of block b, err the message of an assertion failing inside share.
RECURSIVE PartsOutcomes(_, _, _, _, _)
PartsOutcomes(parts, k, n, P, w) ==
    IF parts = <<>> THEN { [rows |-> <<>>, draws |-> 0, err |-> ""] }
    ELSE LET rests == PartsOutcomes(Tail(parts), k, n, P, w)
         IN UNION {
              IF o.ret.kind # "ok"
              THEN { [rows |-> <<>>, draws |-> o.draws, err |-> o.ret.msg] }
              ELSE { [rows |-> <<o.ret.shares>> \o rest.rows,
                      draws |-> o.draws + rest.draws,
                      err |-> rest.err] : rest \in rests } :
              o \in UNION { FiniteFieldSecret_share(D_part, k, n, <<P>>, w) :
                            D_part \in { str_to_dec(Head(parts)) } } }

\* all_shares.values(): participant i's bundle holds its share of every block;
\* the dictionary stays empty when there is no block or no participant
Bundles(rows, n) ==
    IF Len(rows) = 0 THEN <<>>
    ELSE [i \in 1 .. n |-> [b \in 1 .. Len(rows) |-> rows[b][i]]]

\* share_small from its assertions on, with the prime P1 in place and d0 draws
\* made so far
ShareSmallWithPrime(msg_bytes, k, n, share_length, P1, d0, w) ==
    LET msg == ShareSmallAssertion(Pow(Base, share_length), n, P1, share_length,
                                   Len(msg_bytes))
    IN IF msg # ""
       THEN { [ret |-> [kind |-> "AssertionError", msg |-> msg], draws |-> d0] }
       ELSE { IF po.err # ""
              THEN [ret |-> [kind |-> "AssertionError", msg |-> po.err],
                    draws |-> d0 + po.draws]
              ELSE [ret |-> [kind |-> "ok",
                             share_length |-> share_length,
                             P |-> P1,
                             msg_len |-> Len(msg_bytes),
                             shares |-> Bundles(po.rows, n)],
                    draws |-> d0 + po.draws] :
              po \in PartsOutcomes(Blocks(msg_bytes, share_length), k, n, P1, w) }

\* FiniteFieldByteSecret.share_small(msg_bytes, k, n, share_length, P):
\* every [ret, draws] the call can produce with each draw within w of an end
\* of its range
share_small(msg_bytes, k, n, share_length, P, w) ==
    IF NeedsPrime(P)
    THEN UNION { ShareSmallWithPrime(msg_bytes, k, n, share_length, P1, 1, w) :
                 P1 \in GeneratedPrimes(Max(Pow(Base, share_length), n), w) }
    ELSE ShareSmallWithPrime(msg_bytes, k, n, share_length, P[1], 0, w)

\* pad(s, min_len)
pad(s, min_len) ==
    IF Len(s) >= min_len THEN s
    ELSE [i \in 1 .. (min_len - Len(s)) |-> 0] \o s

\* The loop of join_small over the block positions
RECURSIVE JoinBlocksFrom(_, _, _, _, _, _, _)
JoinBlocksFrom(share_length, P, msg_len, shares, share_idx, decoded_len, msg) ==
    IF share_idx > Len(shares[1]) THEN [kind |-> "ok", value |-> msg]
    ELSE LET sub_shares == [p \in 1 .. Len(shares) |-> shares[p][share_idx]]
             D_sub == FiniteFieldSecret_join(P, sub_shares)
         IN IF D_sub.kind # "ok" THEN D_sub
            ELSE IF D_sub.value[2] # 1
            THEN \* an mpq with a fraction: its digits never run out, and the
                 \* loop of dec_to_str goes on to 257**-1, a float
                 [kind |-> "NotAnInteger", msg |-> "dec_to_str of a fraction"]
            ELSE LET unpadded == dec_to_str(D_sub.value[1])
                 IN IF unpadded.kind # "ok" THEN unpadded
                    ELSE LET msg_sub == pad(unpadded.value,
                                            Min(msg_len - decoded_len, share_length))
                         IN JoinBlocksFrom(share_length, P, msg_len, shares,
                                           share_idx + 1,
                                           decoded_len + Len(msg_sub),
                                           msg \o msg_sub)

\* FiniteFieldByteSecret.join_small(share_length, P, msg_len, shares)
join_small(share_length, P, msg_len, shares) ==
    IF Len(shares) = 0
    THEN [kind |-> "IndexError", msg |-> "list index out of range"]  \* shares[0]
    ELSE JoinBlocksFrom(share_length, P, msg_len, shares, 1, 0, <<>>)

(***************************************************************************)
(* Calls of share_small, followed by join_small on the four values it      *)
(* returned (all n bundles).  Every random draw of share_small is one of   *)
(* the two ends of its range (width 0): the prime seed is max(257^L, n),   *)
(* a coefficient is 0 or D-1.                                              *)
(***************************************************************************)
MaxMsgLen == 3       \* message length in 0..MaxMsgLen
MaxShareLen == 2     \* share_length in 0..MaxShareLen
ByteMaxK == 2        \* k in 0..ByteMaxK
ByteMaxN == 2        \* n in 0..ByteMaxN

ByteValues == {0, 255}

Messages == UNION { [1 .. len -> ByteValues] : len \in 0 .. MaxMsgLen }

\* no P, a composite, the prime equal to 257^1, primes above 257^1 and 257^2
ByteModuli == {None, <<258>>, <<257>>, <<263>>, <<66067>>}

InitBytes ==
    /\ pc = "call"
    /\ op = "share_small"
    /\ args \in [msg : Messages, k : 0 .. ByteMaxK, n : 0 .. ByteMaxN,
                 share_length : 0 .. MaxShareLen, P : ByteModuli]
    /\ ret = NoValue
    /\ out = NoValue
    /\ randDraws = 0

ShareSmallCall ==
    /\ pc = "call"
    /\ op = "share_small"
    /\ \E o \in share_small(args.msg, args.k, args.n, args.share_length, args.P, 0) :
          /\ ret' = o.ret
          /\ randDraws' = randDraws + o.draws
    /\ pc' = "shared_small"
    /\ UNCHANGED <<op, args, out>>

JoinSmallCall ==
    /\ pc = "shared_small"
    /\ ret.kind = "ok"
    /\ out' = join_small(ret.share_length, ret.P, ret.msg_len, ret.shares)
    /\ pc' = "joined_small"
    /\ UNCHANGED <<op, args, ret, randDraws>>

NextBytes == ShareSmallCall \/ JoinSmallCall

SpecBytes == InitBytes /\ [][NextBytes]_vars

(***************************************************************************)
(* Reference notions the properties are stated with.                        *)
(***************************************************************************)
\* The integer square root of n, 0 <= n < 46340^2
Isqrt(n) == CHOOSE r \in 0 .. 46339 : r * r <= n /\ n < (r + 1) * (r + 1)

\* n is prime, by trial division
IsPrime(n) == n >= 2 /\ \A d \in 2 .. Isqrt(n) : n % d # 0

\* C7: for every n in [0, 10000] and every rounds argument, is_probable_prime
\* returns True exactly when n is prime, and draws no random base.
C7_PrimalityCorrect ==
    pc = "tested" =>
        /\ ret.value = IsPrime(args.n)
        /\ randDraws = 0

\* C7 witness: an odd composite and an odd prime beyond the literal truth table
\* have been tested, here with a non-default rounds argument.
C7_Witness ==
    /\ pc = "tested"
    /\ args.n = 9999
    /\ args.k = 0
    /\ ret.value = FALSE

ValidShareArgs ==
    /\ args.P # None
    /\ IsPrime(args.P[1])
    /\ 0 <= args.D /\ args.D < args.P[1]
    /\ 1 <= args.k /\ args.k <= args.n /\ args.n < args.P[1]

\* C1: for every prime P, 0 <= D < P, 1 <= k <= n < P, every coefficient draw and
\* every subset S of the returned shares with |S| >= k, join(P, S) returns D.
C1_RoundTrip ==
    (pc = "joined" /\ op = "share" /\ ValidShareArgs
        /\ Cardinality(out.used) >= args.k)
    => (out.res.kind = "ok" /\ out.res.value = Q(args.D))

\* C3: for every prime P, k >= 2, n >= k, every set X of fewer than k participants
\* and every other secret D2 in [0, P), the share values issued to X for the
\* secret D can also be issued to X for D2 (some coefficient draw for D2 gives X
\* the same values), so the values X holds say nothing about the secret.
C3_Secrecy ==
    (pc = "shared" /\ ValidShareArgs /\ args.k >= 2 /\ ret.kind = "ok")
    => \A D2 \in 0 .. (ret.P - 1) :
         \A X \in SUBSET (1 .. args.n) :
            Cardinality(X) < args.k =>
               \E low \in [1 .. CoeffCount(args.k) -> CoeffRange(D2)] :
                  \A x \in X : polyval(low \o <<D2>>, ret.P, x) = ret.shares[x].y

\* C4: join raises its duplicate-share error exactly when two supplied shares
\* have the same x, wherever they stand and whatever their y; otherwise it
\* returns a value.
C4_DuplicateDetection ==
    (pc = "joined" /\ op = "join")
    => LET dup == \E i, j \in 1 .. Len(args.D_seq) :
                     i < j /\ args.D_seq[i].x = args.D_seq[j].x
       IN /\ (dup <=> ret.kind = "RuntimeError")
          /\ (~ dup <=> ret.kind = "ok")

\* C4 witness: three shares, the first and the last with the same x and
\* different y, were supplied and join raised.
C4_Witness ==
    /\ pc = "joined"
    /\ op = "join"
    /\ Len(args.D_seq) = 3
    /\ args.D_seq[1].x = args.D_seq[3].x
    /\ args.D_seq[1].y # args.D_seq[3].y
    /\ args.D_seq[2].x # args.D_seq[1].x
    /\ ret.kind = "RuntimeError"

\* C5: share fails, and returns no shares, whenever k > n or k < 1.
C5_ThresholdRejected ==
    (pc = "shared" /\ (args.k > args.n \/ args.k < 1))
    => ret.kind = "AssertionError"

\* C9: when share rejects its arguments, no random number has been drawn in the
\* call, also when P is omitted or is not prime.
C9_EagerRejection ==
    (pc = "shared" /\ ret.kind = "AssertionError") => randDraws = 0

\* C10: a successful share returns exactly n shares, the i-th with x = i, and
\* every y an integer with 0 <= y < P', for every draw.
C10_ShareShape ==
    (pc = "shared" /\ ret.kind = "ok")
    => /\ Len(ret.shares) = args.n
       /\ \A i \in 1 .. args.n :
             /\ ret.shares[i].x = i
             /\ ret.shares[i].y[2] = 1
             /\ 0 <= ret.shares[i].y[1]
             /\ ret.shares[i].y[1] < ret.P

\* C10 witness: three shares of the secret 6 under a generated prime 7, one of
\* them reduced below the secret.
C10_Witness ==
    /\ pc = "shared"
    /\ ret.kind = "ok"
    /\ args.P = None
    /\ args.D = 6 /\ args.k = 3 /\ args.n = 3
    /\ ret.P = 7
    /\ \E i \in 1 .. 3 : ret.shares[i].y[1] < 6


\* The preconditions of share_small: a non-empty message, 1 <= L <= len(msg),
\* 1 <= k <= n, and P omitted or a prime above 257^L and n
ValidShareSmallArgs ==
    /\ Len(args.msg) >= 1
    /\ 1 <= args.share_length /\ args.share_length <= Len(args.msg)
    /\ 1 <= args.k /\ args.k <= args.n
    /\ \/ args.P = None
       \/ /\ IsPrime(args.P[1])
          /\ args.P[1] > Pow(Base, args.share_length)
          /\ args.P[1] > args.n

C8_EmptyMessageShared ==
    (pc = "shared_small" /\ Len(args.msg) = 0) => ret.kind = "ok"

\* C8 (amended): share_small applied to the empty message raises an assertion
\* error for every k, n, block length and P, so no result reaches join_small.
C8_EmptyMessageRejected ==
    Len(args.msg) = 0 =>
        /\ pc # "joined_small"
        /\ (pc = "shared_small" => ret.kind = "AssertionError")

\* C8 witness: the empty message with block length 1 and a suitable prime was
\* rejected by the share-length assertion.
C8_Witness ==
    /\ pc = "shared_small"
    /\ op = "share_small"
    /\ Len(args.msg) = 0
    /\ args.share_length = 1
    /\ args.P = <<263>>
    /\ ret.kind = "AssertionError"
    /\ ret.msg # "P must be bigger than 257^share_length"
    /\ ret.msg # "P must be bigger than n"

=============================================================================
